---- MODULE Spec2Model ----
(***************************************************************************)
(* Model of the list-file downloader of gdrive (package download):         *)
(* onRunDownload loads or builds a flat task list (loadListFile,           *)
(* listDriveFolderFiles / listDriveFolder), persists it (saveListFile)     *)
(* and drives it to completion (downloadDriveFile, getFileMd5, saveFile).  *)
(* A run begins where onRunDownload holds its drive service and builds the *)
(* root task; the credential and token plumbing before it is left out.     *)
(*                                                                         *)
(* The remote service, the local file system and the list file are the    *)
(* environment.  Every call into the environment that can fail in the     *)
(* code can fail here.  MaxFaults caps the failures injected in one        *)
(* behaviour; the attempts that retry a failed attempt on the same task   *)
(* may fail without counting, so that a task can exhaust its retries.     *)
(***************************************************************************)
EXTENDS Integers, Sequences, FiniteSets, TLC

\* ------------------------------------------------------------------ bounds
MaxEntries == 3   \* entries below the root in a remote tree (SpecWalk)
MaxRunEntries == 1  \* entries below the root in a remote tree (Spec)
MaxTasks   == 2   \* tasks in a list file found on disk at the first run
MaxFaults  == 2   \* calls or tasks the environment makes fail in one behaviour
MaxRuns    == 2   \* invocations of the command with the same list path
LongLen    == 12  \* length of the long list files of InitLong
MaxRoundLen == 2  \* tasks in a list handed to saveListFile (SpecRound)

\* ------------------------------------------------------- program constants
MaxAttempts == 5      \* for k := 1; k <= 5; k++
SleepUnit   == 5      \* time.Duration(k*5) * time.Second
SavePeriod  == 10     \* if (i+1)%10 == 0
PageSize    == 100    \* PageSize(100)

\* -------------------------------------------------------------- data model
Names    == {"a", "b"}              \* display names of remote entries
Dst      == <<"out">>               \* config.Dst, a path of one segment
RootName == "r"                     \* display name of the root entry

\* A local path is the sequence of its segments; <<>> is the working directory.
Dir(p) == IF p = <<>> THEN <<>> ELSE SubSeq(p, 1, Len(p) - 1)

\* filepath.Clean applied to a sequence of segments: "" and "." vanish,
\* ".." removes the segment before it.
RECURSIVE Clean(_)
Clean(p) ==
  IF p = <<>> THEN <<>>
  ELSE LET q == Clean(Dir(p))
           s == p[Len(p)]
       IN  IF s = "" \/ s = "." THEN q
           ELSE IF s = ".." /\ q # <<>> /\ q[Len(q)] # ".." THEN Dir(q)
           ELSE Append(q, s)

\* filepath.Join(dir, name)
Join(dir, name) == Clean(Append(dir, name))

\* Contents of a local or remote file and their MD5 fingerprints.  "c1" is
\* the content the metadata fingerprint "m1" was computed from, "c2" is
\* what the remote file holds after it changed, "partial" is a truncated
\* download.
Md5Of(c) == CASE c = "c1" -> "m1" [] c = "c2" -> "m2" [] OTHER -> "mp"

\* type Task struct
Task(id, path, md5, done) ==
  [FileId |-> id, SavePath |-> path, Md5Checksum |-> md5, Done |-> done]

\* The identifier the service gives entry e of a tree.
EntryIds == <<"e0", "e1", "e2", "e3", "e4", "e5", "e6", "e7">>
IdOf(e) == EntryIds[e + 1]

\* ------------------------------------------------------------ remote trees
\* A remote tree: entries 0..n, 0 the root.  kind[e] is "folder" or "file",
\* par[e] < e is the folder holding e, md5[e] is the fingerprint the
\* service reports ("" when it reports none).  Trees that differ by a
\* renaming of the entries behave alike: the first entry below the root is
\* named "a".
IsTree(t) ==
  /\ \A e \in 1..t.n : t.par[e] < e /\ t.kind[t.par[e]] = "folder"
  /\ t.name[0] = RootName
  /\ \A e \in 0..t.n : t.kind[e] = "folder" => t.md5[e] = ""
  /\ t.kind[0] = "file" => t.n = 0
  /\ t.n > 0 => t.name[1] = "a"

TreesOf(n) ==
  { t \in [n : {n},
           kind : [0..n -> {"folder", "file"}],
           par  : [1..n -> 0..(n-1)],
           name : [0..n -> Names \cup {RootName}],
           md5  : [0..n -> {"", "m1"}]] :
      IsTree(t) /\ \A e \in 1..n : t.name[e] \in Names }



Trees(max) == UNION { TreesOf(n) : n \in 0..max }

\* The tree that is there when the run starts from a list found on disk.
NoTree ==
  [n |-> 0, kind |-> [e \in {0} |-> "folder"], par |-> <<>>,
   name |-> [e \in {0} |-> RootName], md5 |-> [e \in {0} |-> ""]]

\* strings.HasSuffix(driveFile.MimeType, "folder")
isDriveFolder(t, e) == t.kind[e] = "folder"

\* The children of folder e in the order the service lists them.
RECURSIVE ChildrenFrom(_, _, _)
ChildrenFrom(t, e, c) ==
  IF c > t.n THEN <<>>
  ELSE IF t.par[c] = e THEN <<c>> \o ChildrenFrom(t, e, c + 1)
  ELSE ChildrenFrom(t, e, c + 1)

Children(t, e) == ChildrenFrom(t, e, 1)

\* service.Files.Get(id): the entry the identifier names.
EntryOf(t, id) == CHOOSE e \in 0..t.n : IdOf(e) = id

\* ---------------------------------------------------------- the list file
\* encoding/json writes a string with every invalid UTF-8 byte replaced by
\* U+FFFD.  "<ff>" stands for a segment holding such a byte, "<fffd>" for
\* what is written for it.
JsonString(s) == IF s = "<ff>" THEN "<fffd>" ELSE s

JsonPath(p) == [j \in 1..Len(p) |-> JsonString(p[j])]

\* json.Encoder.Encode of one Task under its `json:"..."` tags.
EncodeTask(t) ==
  [id |-> JsonString(t.FileId), path |-> JsonPath(t.SavePath),
   md5 |-> JsonString(t.Md5Checksum), done |-> t.Done]

\* Mutant: the done field is not read back.
DecodeTaskNoDone(o) == Task(o.id, o.path, o.md5, FALSE)

\* json.Decoder.Decode of one object into a Task.
DecodeTask(o) == Task(o.id, o.path, o.md5, o.done)

Encode(tasks) == [j \in 1..Len(tasks) |-> EncodeTask(tasks[j])]
Decode(doc)   == [j \in 1..Len(doc) |-> DecodeTask(doc[j])]

\* The list file on disk: absent, unparsable, or a JSON document.
Absent    == [state |-> "absent", doc |-> <<>>]
Corrupt   == [state |-> "corrupt", doc |-> <<>>]
Json(doc) == [state |-> "json", doc |-> doc]

\* Mutant: the load fails whatever the file holds.
loadListFileBlind(lf) == [err |-> TRUE, tasks |-> <<>>]

\* loadListFile: os.Open fails on an absent file, Decode on an unparsable one.
loadListFile(lf) ==
  IF lf.state = "json" THEN [err |-> FALSE, tasks |-> Decode(lf.doc)]
  ELSE [err |-> TRUE, tasks |-> <<>>]

\* saveListFile under outcome o: os.Create fails and leaves the file as it
\* was; os.Create truncates and Encode fails, leaving an unparsable file;
\* or the document is written.
SaveOutcomes == {"ok", "createFail", "encodeFail"}

saveListFile(tasks, lf, o) ==
  CASE o = "createFail" -> [err |-> TRUE, file |-> lf]
    [] o = "encodeFail" -> [err |-> TRUE, file |-> Corrupt]
    [] OTHER            -> [err |-> FALSE, file |-> Json(Encode(tasks))]

\* ------------------------------------------------------- local file system
\* fs maps the path of every regular file to its content; dirs is the set
\* of directories.  The working directory <<>> always exists.
Prefixes(p) == { SubSeq(p, 1, j) : j \in 1..Len(p) }

IsDir(dirs, p) == p = <<>> \/ p \in dirs

\* os.MkdirAll(d): creates d and its missing parents, stopping at a parent
\* that is a regular file (the error is dropped by saveFile).
MkdirAll(fs, dirs, d) ==
  dirs \cup { p \in Prefixes(d) : \A q \in Prefixes(p) : q \notin DOMAIN fs }

\* getFileMd5 under outcome o: "" when os.Open fails; the loop over
\* fin.Read ends only on io.EOF, so a read that keeps failing (the path is a
\* directory, the device fails) never returns: "hang".
getFileMd5(fs, dirs, p, o) ==
  IF p \in dirs THEN "hang"
  ELSE IF p \notin DOMAIN fs \/ o = "openFail" THEN ""
  ELSE IF o = "readErr" THEN "hang"
  ELSE Md5Of(fs[p])

\* saveFile(p, body) under outcome o.  The file is created (truncated),
\* io.Copy fills it through a bufio.Writer, the deferred Flush writes the
\* buffered tail and its error is dropped.
saveFile(fs, dirs, p, content, o) ==
  LET dirs1 == MkdirAll(fs, dirs, Dir(p))
      put(c) == [q \in DOMAIN fs \cup {p} |-> IF q = p THEN c ELSE fs[q]]
  IN  IF o = "createFail" \/ p \in dirs1 \/ ~IsDir(dirs1, Dir(p))
        THEN [err |-> TRUE, fs |-> fs, dirs |-> dirs1]
      ELSE IF o = "copyFail"
        THEN [err |-> TRUE, fs |-> put("partial"), dirs |-> dirs1]
      ELSE IF o = "flushFail"
        THEN [err |-> FALSE, fs |-> put("partial"), dirs |-> dirs1]
      ELSE [err |-> FALSE, fs |-> put(content), dirs |-> dirs1]

\* What driveFile.Download() delivers for a task: the content its recorded
\* fingerprint was computed from, or other content when the remote file
\* changed after the walk.
RemoteContent(task, o) == IF o = "changed" THEN "c2" ELSE "c1"

\* downloadDriveFile(service, task) under outcome o.
DownloadOutcomes ==
  {"ok", "openFail", "readErr", "fetchFail", "changed",
   "createFail", "copyFail", "flushFail"}

downloadDriveFile(fs, dirs, task, o) ==
  LET dstFilePath == task.SavePath
      dstFileMd5  == getFileMd5(fs, dirs, dstFilePath, o)
      same(e, h, f) == [err |-> e, hang |-> h, fetched |-> f,
                        fs |-> fs, dirs |-> dirs]
  IN  IF dstFileMd5 = "hang" THEN same(FALSE, TRUE, FALSE)
      ELSE IF task.Md5Checksum # "" /\ dstFileMd5 # ""
              /\ dstFileMd5 = task.Md5Checksum
        THEN same(FALSE, FALSE, FALSE)
      ELSE IF o = "fetchFail" THEN same(TRUE, FALSE, TRUE)
      ELSE LET w == saveFile(fs, dirs, dstFilePath, RemoteContent(task, o), o)
           IN  [err |-> w.err, hang |-> FALSE, fetched |-> TRUE,
                fs |-> w.fs, dirs |-> w.dirs]


\* ------------------------------------------------------------------- state
VARIABLES
  tree,        \* the remote tree
  listFile,    \* the file at config.ListFile
  fs, dirs,    \* the local file system
  pc,          \* where onRunDownload is: start, walk, list, exec, final,
               \* exit, or hung (inside a call that never returns)
  fileTasks,   \* []Task of onRunDownload / listDriveFolderFiles
  taskQueue,   \* the walk's queue of tasks to expand
  task,        \* the folder task listDriveFolderFiles is listing
  pageToken,   \* listDriveFolder: entries of the folder delivered so far
  i, k,        \* the executor's task index (from 1) and attempt number
  err,         \* err # nil in onRunDownload
  faultsLeft,  \* failures the environment may still inject
  run,         \* number of the current invocation
  h            \* what the run has done so far (history)

vars == <<tree, listFile, fs, dirs, pc, fileTasks, taskQueue, task,
          pageToken, i, k, err, faultsLeft, run, h>>

NoTask == Task("", <<>>, "", FALSE)

\* History of one run, as it starts.
NewHistory(lf, f, d, prev) ==
  [loadOk       |-> "none",   \* outcome of loadListFile
   walked       |-> FALSE,    \* listDriveFolderFiles was called
   walkFailed   |-> FALSE,    \* and returned an error
   partial      |-> 0,        \* tasks it had collected when it failed
   listed       |-> FALSE,    \* a Files.Get or Files.List call was made
   fetched      |-> FALSE,    \* a Download call was made
   saves        |-> 0,        \* calls of saveListFile
   lastSave     |-> "none",   \* outcome of the last saveListFile since the
                              \* last change of a Done flag
   unsaved      |-> 0,        \* tasks marked Done since the last saveListFile
   startDone    |-> <<>>,     \* the Done flags when the executor loop began
   attemptLog   |-> <<>>,     \* indices downloadDriveFile was called for
   att          |-> <<>>,     \* results of the attempts on the last of them
   slept        |-> <<>>,     \* seconds slept after each of those attempts
   listFile0    |-> lf,       \* the list file when the run began
   fs0          |-> f,        \* the regular files when the run began
   dirs0        |-> d,        \* the directories when the run began
   prevComplete |-> prev]     \* the run before ended with every task Done
                              \* and its final save succeeded

Dones(tasks) == [j \in 1..Len(tasks) |-> tasks[j].Done]

Min(a, b) == IF a < b THEN a ELSE b

\* ------------------------------------------------------------------- Init
\* Task lists a list file may hold when the first run starts.
ListPaths == { Join(Dst, n) : n \in Names }

TaskListsOf(n) ==
  [1..n -> { Task(id, p, m, d) : id \in {"e1"}, p \in ListPaths,
                                 m \in {"", "m1"}, d \in BOOLEAN }]

TaskLists == UNION { TaskListsOf(n) : n \in 0..MaxTasks }

\* The local files that go with such a list: every task that is Done has
\* its file, holding the content of its fingerprint.
FilesFor(tasks) ==
  [p \in { tasks[j].SavePath : j \in { x \in 1..Len(tasks) : tasks[x].Done } }
     |-> "c1"]

DirsFor(tasks) ==
  UNION { Prefixes(Dir(tasks[j].SavePath)) :
            j \in { x \in 1..Len(tasks) : tasks[x].Done } }

InitRun(lf, f, d) ==
  /\ listFile = lf /\ fs = f /\ dirs = d
  /\ pc = "start" /\ fileTasks = <<>> /\ taskQueue = <<>>
  /\ task = NoTask /\ pageToken = 0 /\ i = 1 /\ k = 1 /\ err = FALSE
  /\ run = 1
  /\ h = NewHistory(lf, f, d, FALSE)

\* A first run: no usable list file and nothing downloaded yet.
InitFresh ==
  /\ tree \in Trees(MaxRunEntries)
  /\ faultsLeft = MaxFaults
  /\ InitRun(Absent, <<>>, {})

\* A run that finds the list file of an earlier run.
InitResume ==
  /\ tree = NoTree
  /\ faultsLeft = MaxFaults
  /\ \E T \in TaskLists : InitRun(Json(Encode(T)), FilesFor(T), DirsFor(T))

Init == InitFresh \/ InitResume

\* ------------------------------------------------------------ onRunDownload
\* fileTasks, err = loadListFile(config.ListFile); on an error the walk
\* starts from root.
Load ==
  /\ pc = "start"
  /\ LET r == loadListFile(listFile)
     IN  IF r.err
           THEN /\ pc' = "walk"
                /\ fileTasks' = <<>>
                /\ taskQueue' = <<Task(IdOf(0), Dst, "", FALSE)>>
                /\ err' = TRUE
                /\ h' = [h EXCEPT !.loadOk = "fail", !.walked = TRUE]
           ELSE /\ pc' = "exec"
                /\ fileTasks' = r.tasks
                /\ taskQueue' = <<>>
                /\ err' = FALSE
                /\ h' = [h EXCEPT !.loadOk = "ok",
                                   !.startDone = Dones(r.tasks)]
  /\ i' = 1 /\ k' = 1
  /\ UNCHANGED <<tree, listFile, fs, dirs, task, pageToken, faultsLeft, run>>

\* The handler listDriveFolderFiles passes to listDriveFolder, applied to
\* the entries of one page in order: folders go to the queue, files to the
\* list.
nextTask(t, parent, e) ==
  Task(IdOf(e), Join(parent.SavePath, t.name[e]), t.md5[e], FALSE)

RECURSIVE PageTasks(_, _, _, _)
PageTasks(t, parent, entries, folders) ==
  IF entries = <<>> THEN <<>>
  ELSE LET e == Head(entries)
           rest == PageTasks(t, parent, Tail(entries), folders)
       IN  IF isDriveFolder(t, e) = folders
             THEN <<nextTask(t, parent, e)>> \o rest
             ELSE rest

\* Mutant: the walk returns what it has collected and the run goes on.
WalkErrorPartial ==
  /\ pc' = "exec"
  /\ fileTasks' = fileTasks
  /\ taskQueue' = <<>>
  /\ task' = NoTask
  /\ pageToken' = 0
  /\ err' = FALSE
  /\ faultsLeft' = faultsLeft - 1
  /\ h' = [h EXCEPT !.listed = TRUE, !.walkFailed = TRUE,
                     !.partial = Len(fileTasks),
                     !.startDone = Dones(fileTasks)]

\* listDriveFolderFiles returns (nil, err): onRunDownload logs and returns.
WalkError ==
  /\ pc' = "exit"
  /\ fileTasks' = <<>>
  /\ taskQueue' = <<>>
  /\ task' = NoTask
  /\ pageToken' = 0
  /\ err' = TRUE
  /\ faultsLeft' = faultsLeft - 1
  /\ h' = [h EXCEPT !.listed = TRUE, !.walkFailed = TRUE,
                     !.partial = Len(fileTasks)]

\* One turn of the loop of listDriveFolderFiles: pop the front of the
\* queue and get its metadata.
WalkGet ==
  /\ pc = "walk" /\ taskQueue # <<>>
  /\ \E ok \in BOOLEAN :
       /\ ~ok => faultsLeft > 0
       /\ LET front    == Head(taskQueue)
              currFile == EntryOf(tree, front.FileId)
          IN  IF ~ok THEN WalkError
              ELSE IF isDriveFolder(tree, currFile)
                THEN /\ pc' = "list"
                     /\ task' = front
                     /\ pageToken' = 0
                     /\ taskQueue' = Tail(taskQueue)
                     /\ h' = [h EXCEPT !.listed = TRUE]
                     /\ UNCHANGED <<fileTasks, faultsLeft, err>>
                ELSE /\ fileTasks' = Append(fileTasks,
                          Task(IdOf(currFile),
                               Join(front.SavePath, tree.name[currFile]),
                               tree.md5[currFile], FALSE))
                     /\ taskQueue' = Tail(taskQueue)
                     /\ h' = [h EXCEPT !.listed = TRUE]
                     /\ UNCHANGED <<pc, task, pageToken, faultsLeft, err>>
  /\ UNCHANGED <<tree, listFile, fs, dirs, i, k, run>>

\* One turn of the loop of listDriveFolder: request the page at pageToken.
\* The service answers with the next n entries (n may be 0) and a
\* continuation token, which is not empty (more) while entries remain.
ListPage ==
  /\ pc = "list"
  /\ LET all == Children(tree, EntryOf(tree, task.FileId))
         rem == Len(all) - pageToken
     IN  \E ok \in BOOLEAN, n \in 0..Min(rem, PageSize), more \in BOOLEAN :
           /\ ~ok => faultsLeft > 0 /\ n = 0 /\ ~more
           /\ ok /\ rem - n > 0 => more
           /\ LET entries == SubSeq(all, pageToken + 1, pageToken + n)
              IN  IF ~ok THEN WalkError
                  ELSE /\ fileTasks' = fileTasks \o
                                         PageTasks(tree, task, entries, FALSE)
                       /\ taskQueue' = taskQueue \o
                                         PageTasks(tree, task, entries, TRUE)
                       /\ IF n = 0 \/ ~more
                            THEN pc' = "walk" /\ pageToken' = 0
                                 /\ task' = NoTask
                            ELSE pc' = "list" /\ pageToken' = pageToken + n
                                 /\ task' = task
                       /\ h' = [h EXCEPT !.listed = TRUE]
                       /\ UNCHANGED <<faultsLeft, err>>
  /\ UNCHANGED <<tree, listFile, fs, dirs, i, k, run>>

\* Mutant: a failed save of the fresh list ends the run.
WalkReturnAbort ==
  /\ pc = "walk" /\ taskQueue = <<>>
  /\ \E o \in SaveOutcomes :
       /\ o # "ok" => faultsLeft > 0
       /\ listFile' = saveListFile(fileTasks, listFile, o).file
       /\ faultsLeft' = IF o = "ok" THEN faultsLeft ELSE faultsLeft - 1
       /\ h' = [h EXCEPT !.saves = @ + 1,
                          !.lastSave = IF o = "ok" THEN "ok" ELSE "failed",
                          !.startDone = Dones(fileTasks)]
       /\ pc' = IF o = "ok" THEN "exec" ELSE "exit"
       /\ err' = (o # "ok")
  /\ i' = 1 /\ k' = 1
  /\ UNCHANGED <<tree, fs, dirs, fileTasks, taskQueue, task, pageToken, run>>

\* The queue is empty: listDriveFolderFiles returns the list and
\* onRunDownload saves it at once (the error of the save is dropped).
WalkReturn ==
  /\ pc = "walk" /\ taskQueue = <<>>
  /\ \E o \in SaveOutcomes :
       /\ o # "ok" => faultsLeft > 0
       /\ listFile' = saveListFile(fileTasks, listFile, o).file
       /\ faultsLeft' = IF o = "ok" THEN faultsLeft ELSE faultsLeft - 1
       /\ h' = [h EXCEPT !.saves = @ + 1,
                          !.lastSave = IF o = "ok" THEN "ok" ELSE "failed",
                          !.startDone = Dones(fileTasks)]
  /\ pc' = "exec" /\ i' = 1 /\ k' = 1 /\ err' = FALSE
  /\ UNCHANGED <<tree, fs, dirs, fileTasks, taskQueue, task, pageToken, run>>


\* ------------------------------------------------------- the executor loop
Total == Len(fileTasks)

\* Mutant: no task is skipped.
SkipsNever(t) == FALSE

\* if task.Done { continue }
Skips(t) == t.Done

ExecSkip ==
  /\ pc = "exec" /\ i <= Total /\ Skips(fileTasks[i])
  /\ i' = i + 1
  /\ UNCHANGED <<tree, listFile, fs, dirs, pc, fileTasks, taskQueue, task,
                 pageToken, k, err, faultsLeft, run, h>>

\* The save after task i is marked Done: if (i+1)%10 == 0 with i counted
\* from 0, which is i % 10 = 0 with i counted from 1.
PeriodicSaveDue(idx) == idx % SavePeriod = 0

\* Mutant: one attempt more.
LastAttemptLate(n) == n >= MaxAttempts + 1

\* The attempts the loop for k := 1; k <= 5; k++ makes on one task.
LastAttempt(n) == n >= MaxAttempts

\* Mutant: a task that exhausted its retries is skipped and the loop goes on.
AfterFailureContinue(idx, n) ==
  IF LastAttempt(n) THEN [pc |-> "exec", i |-> idx + 1, k |-> 1]
  ELSE [pc |-> "exec", i |-> idx, k |-> n + 1]

\* Mutant: onRunDownload returns when a task exhausted its retries.
AfterFailureReturn(idx, n) ==
  IF LastAttempt(n) THEN [pc |-> "exit", i |-> idx, k |-> n]
  ELSE [pc |-> "exec", i |-> idx, k |-> n + 1]

\* After failed attempt n on task idx (and the sleep): the next attempt,
\* or, err being set when the retry loop ends, the break out of the task loop.
AfterFailure(idx, n) ==
  IF LastAttempt(n) THEN [pc |-> "final", i |-> idx, k |-> n]
  ELSE [pc |-> "exec", i |-> idx, k |-> n + 1]

\* One call err = downloadDriveFile(service, task) of the retry loop and
\* what follows it: on success the Done flag and the periodic save, on
\* failure the sleep and the next attempt or, after the last attempt, the
\* break out of the task loop.
Download ==
  /\ pc = "exec" /\ i <= Total /\ ~Skips(fileTasks[i])
  /\ \E o \in DownloadOutcomes, so \in SaveOutcomes :
       LET r      == downloadDriveFile(fs, dirs, fileTasks[i], o)
           rok    == downloadDriveFile(fs, dirs, fileTasks[i], "ok")
           good   == ~r.hang /\ ~r.err
           saving == good /\ PeriodicSaveDue(i)
           cost   == (IF o = "ok" \/ k > 1 THEN 0 ELSE 1) +
                     (IF so = "ok" THEN 0 ELSE 1)
           marked == [fileTasks EXCEPT ![i].Done = TRUE]
           res    == IF r.hang THEN "hang" ELSE IF r.err THEN "fail" ELSE "ok"
           h1     == [h EXCEPT
                        !.fetched = @ \/ r.fetched,
                        !.attemptLog = IF k = 1 THEN Append(@, i) ELSE @,
                        !.att = IF k = 1 THEN <<res>> ELSE Append(@, res),
                        !.slept = IF k = 1
                                    THEN (IF res = "fail"
                                            THEN <<k * SleepUnit>> ELSE <<>>)
                                    ELSE (IF res = "fail"
                                            THEN Append(@, k * SleepUnit)
                                            ELSE @)]
       IN  /\ cost <= faultsLeft
           /\ o # "ok" => r # rok
           /\ so # "ok" => saving
           /\ faultsLeft' = faultsLeft - cost
           /\ fs' = r.fs /\ dirs' = r.dirs
           /\ IF r.hang
                THEN /\ pc' = "hung"
                     /\ h' = h1
                     /\ UNCHANGED <<fileTasks, listFile, i, k, err>>
              ELSE IF r.err
                THEN /\ err' = TRUE
                     /\ pc' = AfterFailure(i, k).pc
                     /\ i' = AfterFailure(i, k).i
                     /\ k' = AfterFailure(i, k).k
                     /\ h' = h1
                     /\ UNCHANGED <<fileTasks, listFile>>
              ELSE /\ err' = FALSE
                   /\ fileTasks' = marked
                   /\ listFile' = IF saving
                                    THEN saveListFile(marked, listFile, so).file
                                    ELSE listFile
                   /\ h' = [h1 EXCEPT
                              !.saves = IF saving THEN @ + 1 ELSE @,
                              !.unsaved = IF saving THEN 0 ELSE @ + 1,
                              !.lastSave = IF ~saving THEN "none"
                                           ELSE IF so = "ok" THEN "ok"
                                           ELSE "failed"]
                   /\ pc' = "exec" /\ i' = i + 1 /\ k' = 1
  /\ UNCHANGED <<tree, taskQueue, task, pageToken, run>>

\* Mutant: after the final save the list in memory is read back from the
\* list file.
FinalSaveReload ==
  /\ \/ pc = "exec" /\ i > Total
     \/ pc = "final"
  /\ \E o \in SaveOutcomes :
       /\ o # "ok" => faultsLeft > 0
       /\ listFile' = saveListFile(fileTasks, listFile, o).file
       /\ fileTasks' = loadListFile(listFile').tasks
       /\ faultsLeft' = IF o = "ok" THEN faultsLeft ELSE faultsLeft - 1
       /\ h' = [h EXCEPT !.saves = @ + 1, !.unsaved = 0,
                          !.lastSave = IF o = "ok" THEN "ok" ELSE "failed"]
  /\ pc' = "exit"
  /\ UNCHANGED <<tree, fs, dirs, taskQueue, task, pageToken,
                 i, k, err, run>>

\* The task loop has ended, by running off the list or by break:
\* _ = saveListFile(fileTasks, config.ListFile), and onRunDownload returns.
FinalSave ==
  /\ \/ pc = "exec" /\ i > Total
     \/ pc = "final"
  /\ \E o \in SaveOutcomes :
       /\ o # "ok" => faultsLeft > 0
       /\ listFile' = saveListFile(fileTasks, listFile, o).file
       /\ faultsLeft' = IF o = "ok" THEN faultsLeft ELSE faultsLeft - 1
       /\ h' = [h EXCEPT !.saves = @ + 1, !.unsaved = 0,
                          !.lastSave = IF o = "ok" THEN "ok" ELSE "failed"]
  /\ pc' = "exit"
  /\ UNCHANGED <<tree, fs, dirs, fileTasks, taskQueue, task, pageToken,
                 i, k, err, run>>

\* The command is invoked again with the same list path.
Restart ==
  /\ pc = "exit" /\ run < MaxRuns
  /\ run' = run + 1
  /\ pc' = "start" /\ fileTasks' = <<>> /\ taskQueue' = <<>>
  /\ task' = NoTask /\ pageToken' = 0 /\ i' = 1 /\ k' = 1 /\ err' = FALSE
  /\ h' = NewHistory(listFile, fs, dirs,
                     /\ ~h.walkFailed /\ ~err
                     /\ \A j \in 1..Total : fileTasks[j].Done
                     /\ h.lastSave = "ok")
  /\ UNCHANGED <<tree, listFile, fs, dirs, faultsLeft>>

Next ==
  \/ Load \/ WalkGet \/ ListPage \/ WalkReturn
  \/ ExecSkip \/ Download \/ FinalSave \/ Restart

Spec == Init /\ [][Next]_vars

\* The walk alone, over larger trees: from the failed load to the return
\* of listDriveFolderFiles and the save of the fresh list.
InitWalk ==
  /\ tree \in Trees(MaxEntries)
  /\ faultsLeft = 1
  /\ InitRun(Absent, <<>>, {})

NextWalk == Load \/ WalkGet \/ ListPage \/ WalkReturn

SpecWalk == InitWalk /\ [][NextWalk]_vars

\* The executor alone, over long lists with any Done flags and no
\* failures: from the load of the list to the final save.
LongNames == <<"f01", "f02", "f03", "f04", "f05", "f06", "f07", "f08",
               "f09", "f10", "f11", "f12", "f13", "f14", "f15", "f16">>

LongLists ==
  { [j \in 1..LongLen |-> Task(LongNames[j], Join(Dst, LongNames[j]), "",
                               dn[j])] :
      dn \in [1..LongLen -> BOOLEAN] }

InitLong ==
  /\ tree = NoTree
  /\ faultsLeft = 0
  /\ \E T \in LongLists : InitRun(Json(Encode(T)), FilesFor(T), DirsFor(T))

NextLong == Load \/ ExecSkip \/ Download \/ FinalSave

SpecLong == InitLong /\ [][NextLong]_vars

\* Runs in which every saveListFile call of onRunDownload is reached and
\* may fail: fresh runs (the save after the walk) and runs over long lists
\* whose Done flags leave the task at position SavePeriod to the executor
\* (the periodic save).
InitSave ==
  /\ tree = NoTree
  /\ faultsLeft = MaxFaults
  /\ \E T \in LongLists :
       /\ \A j \in 1..(SavePeriod - 1) : T[j].Done
       /\ InitRun(Json(Encode(T)), FilesFor(T), DirsFor(T))

SpecSave == (InitFresh \/ InitSave) /\ [][Next]_vars

\* ------------------------------------------------- termination of a run
\* The process is terminated from outside (a signal, a reboot command):
\* what it holds in memory is gone, the list file and the local files stay
\* as the last completed system call left them.
Killed(lf, f, d) ==
  /\ pc' = "killed"
  /\ listFile' = lf /\ fs' = f /\ dirs' = d
  /\ fileTasks' = <<>> /\ taskQueue' = <<>> /\ task' = NoTask
  /\ pageToken' = 0 /\ i' = 1 /\ k' = 1 /\ err' = FALSE
  /\ h' = NewHistory(lf, f, d, FALSE)
  /\ UNCHANGED <<tree, faultsLeft, run>>

Running == pc \in {"start", "walk", "list", "exec", "final", "hung"}

\* Terminated between two steps of onRunDownload (or inside a call that
\* does not return).
Kill == Running /\ Killed(listFile, fs, dirs)

\* Terminated inside downloadDriveFile, after the fetch: while saveFile
\* copies the content (the file is created and short) or when it has
\* returned and the Done flag is not set yet.
KillInWrite ==
  /\ pc = "exec" /\ i <= Total /\ ~Skips(fileTasks[i])
  /\ \E o \in {"copyFail", "ok"} :
       LET r == downloadDriveFile(fs, dirs, fileTasks[i], o)
       IN  /\ r.fetched /\ ~r.hang
           /\ Killed(listFile, r.fs, r.dirs)

\* Terminated inside saveListFile, between os.Create, which truncates the
\* list file, and the end of the write of the document: after the walk,
\* at the periodic save that follows a download, or at the final save.
KillInSave ==
  \/ /\ \/ pc = "walk" /\ taskQueue = <<>>
        \/ pc = "exec" /\ i > Total
        \/ pc = "final"
     /\ Killed(Corrupt, fs, dirs)
  \/ /\ pc = "exec" /\ i <= Total /\ ~Skips(fileTasks[i])
     /\ PeriodicSaveDue(i)
     /\ LET r == downloadDriveFile(fs, dirs, fileTasks[i], "ok")
        IN  /\ ~r.hang /\ ~r.err
            /\ Killed(Corrupt, r.fs, r.dirs)

\* The command is invoked again after the process was terminated.
Reinvoke ==
  /\ pc = "killed" /\ run < MaxRuns
  /\ pc' = "start" /\ run' = run + 1
  /\ UNCHANGED <<tree, listFile, fs, dirs, fileTasks, taskQueue, task,
                 pageToken, i, k, err, faultsLeft, h>>

NextCrash == Next \/ Kill \/ KillInWrite \/ KillInSave \/ Reinvoke

SpecCrash == (InitFresh \/ InitSave) /\ [][NextCrash]_vars

\* saveListFile followed by loadListFile of the same path, over the task
\* lists a caller can hand over: strings that are empty, plain, or hold a
\* byte that is not valid UTF-8 (a Go string is any sequence of bytes, and
\* config.Dst comes from the command line).
RoundPaths == {<<>>, <<"out", "a">>, <<"<ff>", "a">>}

RoundLists ==
  UNION { [1..n -> { Task(id, p, m, d) : id \in {"", "e1"}, p \in RoundPaths,
                                         m \in {"", "m1"}, d \in BOOLEAN }] :
            n \in 0..MaxRoundLen }

InitRound ==
  /\ tree = NoTree /\ fs = <<>> /\ dirs = {}
  /\ listFile = Absent
  /\ fileTasks \in RoundLists
  /\ taskQueue = <<>> /\ task = NoTask /\ pageToken = 0
  /\ pc = "round" /\ i = 1 /\ k = 1 /\ err = FALSE
  /\ faultsLeft = 1 /\ run = 1
  /\ h = NewHistory(Absent, <<>>, {}, FALSE)

\* err = saveListFile(fileTasks, listFile)
SaveList ==
  /\ pc = "round"
  /\ \E o \in SaveOutcomes :
       /\ o # "ok" => faultsLeft > 0
       /\ listFile' = saveListFile(fileTasks, listFile, o).file
       /\ err' = saveListFile(fileTasks, listFile, o).err
       /\ faultsLeft' = IF o = "ok" THEN faultsLeft ELSE faultsLeft - 1
       /\ h' = [h EXCEPT !.saves = @ + 1,
                          !.lastSave = IF o = "ok" THEN "ok" ELSE "failed"]
  /\ pc' = "saved"
  /\ UNCHANGED <<tree, fs, dirs, fileTasks, taskQueue, task, pageToken,
                 i, k, run>>

\* fileTasks, err = loadListFile(listFile)
LoadList ==
  /\ pc = "saved"
  /\ fileTasks' = loadListFile(listFile).tasks
  /\ err' = loadListFile(listFile).err
  /\ h' = [h EXCEPT !.loadOk = IF err' THEN "fail" ELSE "ok"]
  /\ pc' = "loaded"
  /\ UNCHANGED <<tree, listFile, fs, dirs, taskQueue, task, pageToken,
                 i, k, faultsLeft, run>>

NextRound == SaveList \/ LoadList

SpecRound == InitRound /\ [][NextRound]_vars


\* ================================================================== claims
Last(q) == q[Len(q)]

\* The executor loop has begun (the list was loaded or walked).
InExecutor == pc \in {"exec", "final", "exit", "hung"} /\ ~h.walkFailed

\* The task loop was left by break: a task exhausted its retries.
Aborted == pc \in {"final", "exit"} /\ err /\ ~h.walkFailed

HasFile(t) == t.SavePath \in DOMAIN fs

FileEntries(t) == { e \in 0..t.n : ~isDriveFolder(t, e) }

\* The regular file at p is not what it was when the run began.
Changed(p) == p \notin DOMAIN h.fs0 \/ h.fs0[p] # fs[p]

SameTask(a, b) ==
  a.FileId = b.FileId /\ a.SavePath = b.SavePath
    /\ a.Md5Checksum = b.Md5Checksum

\* C1: every task that is Done has a local file at its SavePath, and the
\* MD5 of that file is the task's Md5Checksum when that is not empty.
\* Stated as the claim has it; the executor breaks it.
C1_DoneImpliesFile ==
  \A j \in 1..Len(fileTasks) :
    fileTasks[j].Done =>
      /\ HasFile(fileTasks[j])
      /\ fileTasks[j].Md5Checksum # "" =>
           Md5Of(fs[fileTasks[j].SavePath]) = fileTasks[j].Md5Checksum

\* C2: after a walk of a tree rooted at a folder, on which every call
\* succeeded, the list holds exactly one task per file of the tree, none
\* for a folder, and every task has Done = FALSE.  Stated as the claim
\* has it; the walk breaks it.
C2_WalkExhaustive ==
  (pc = "exec" /\ h.walked /\ isDriveFolder(tree, 0)) =>
    /\ \A e \in FileEntries(tree) :
         Cardinality({ j \in 1..Len(fileTasks) :
                         fileTasks[j].FileId = IdOf(e) }) = 1
    /\ \A j \in 1..Len(fileTasks) :
         /\ \E e \in FileEntries(tree) : fileTasks[j].FileId = IdOf(e)
         /\ ~fileTasks[j].Done
    /\ Len(fileTasks) = Cardinality(FileEntries(tree))

\* C3: the executor calls downloadDriveFile for no task that was Done when
\* the loop began, changes no local file but those of the tasks it
\* attempted, and attempts the tasks that were not Done in list order,
\* from the first of them, leaving none out.
C3_ResumeOrder ==
  InExecutor =>
    /\ \A x \in 1..Len(h.attemptLog) : ~h.startDone[h.attemptLog[x]]
    /\ \A x \in 1..(Len(h.attemptLog) - 1) :
         h.attemptLog[x] < h.attemptLog[x + 1]
    /\ \A j \in 1..Total :
         (~h.startDone[j] /\ j < i) => \E x \in 1..Len(h.attemptLog) :
                                         h.attemptLog[x] = j
    /\ \A x \in 1..Len(h.attemptLog) : h.attemptLog[x] <= i
    /\ \A p \in DOMAIN fs :
         Changed(p) => \E x \in 1..Len(h.attemptLog) :
                         fileTasks[h.attemptLog[x]].SavePath = p

C3_Witness ==
  /\ pc = "exit"
  /\ h.startDone = <<TRUE, FALSE>>
  /\ h.attemptLog = <<2>>
  /\ h.fetched

\* C4: a task gets at most 5 attempts; after failures only, a success
\* marks it Done and the loop goes on without an error; a failure before
\* the 5th attempt leads to the next attempt on the same task; 5 failures
\* end the loop with the error and the task not Done.
C4_RetryCeiling ==
  (InExecutor /\ h.attemptLog # <<>>) =>
    LET j == Last(h.attemptLog)
        n == Len(h.att)
    IN  /\ n \in 1..MaxAttempts
        /\ \A x \in 1..(n - 1) : h.att[x] = "fail"
        /\ h.att[n] = "ok" =>
             fileTasks[j].Done /\ ~err /\ i > j /\ pc \in {"exec", "exit"}
        /\ (h.att[n] = "fail" /\ n < MaxAttempts) =>
             pc = "exec" /\ i = j /\ k = n + 1 /\ ~fileTasks[j].Done
        /\ (h.att[n] = "fail" /\ n = MaxAttempts) =>
             Aborted /\ i = j /\ ~fileTasks[j].Done

C4_Witness ==
  /\ h.att = <<"fail", "fail", "fail", "fail", "ok">>
  /\ fileTasks[Last(h.attemptLog)].Done
  /\ pc = "exec" /\ i <= Total

\* C5: when a task at position i exhausted its retries, no later task was
\* attempted, the Done flags of task i and of the later tasks are as they
\* were when the loop began, and every earlier task is Done.
C5_FailFastFrame ==
  Aborted =>
    /\ h.attemptLog # <<>> /\ Last(h.attemptLog) = i
    /\ \A x \in 1..Len(h.attemptLog) : h.attemptLog[x] <= i
    /\ \A j \in i..Total : fileTasks[j].Done = h.startDone[j]
    /\ \A j \in 1..(i - 1) : fileTasks[j].Done

C5_Witness ==
  /\ Aborted /\ pc = "exit"
  /\ i = 1 /\ Total = 2 /\ ~fileTasks[2].Done
  /\ h.att = <<"fail", "fail", "fail", "fail", "fail">>

\* C6: at no point of a run have more than 10 tasks been marked Done
\* since the last call of saveListFile.  Stated as the claim has it; the
\* executor breaks it on a list that holds Done tasks.
C6_PeriodicCheckpoint == h.unsaved <= SavePeriod

C8_LoadOrBuild ==
  pc # "start" =>
    /\ h.walked <=> h.listFile0.state # "json"
    /\ h.walked <=> h.loadOk = "fail"
    /\ (h.walked /\ InExecutor) => h.saves >= 1
    /\ (h.walked /\ pc = "exec" /\ h.attemptLog = <<>>) =>
         h.saves = 1 /\ h.lastSave # "none"
    /\ h.loadOk = "ok" =>
         /\ ~h.listed
         /\ Len(fileTasks) = Len(h.listFile0.doc)
         /\ \A j \in 1..Len(fileTasks) :
              SameTask(fileTasks[j], Decode(h.listFile0.doc)[j])
         /\ h.startDone = Dones(Decode(h.listFile0.doc))

C8_Witness ==
  /\ h.walked /\ pc = "exec" /\ h.attemptLog = <<>>
  /\ Total = 1 /\ h.saves = 1 /\ h.listFile0 = Corrupt

\* C9: when a call of the walk fails, onRunDownload returns with no task
\* list, the list file and the local files as they were, no save, no
\* fetch and no attempt.
C9_WalkAbort ==
  h.walkFailed =>
    /\ pc = "exit" /\ fileTasks = <<>>
    /\ listFile = h.listFile0 /\ fs = h.fs0 /\ dirs = h.dirs0
    /\ h.saves = 0 /\ ~h.fetched /\ h.attemptLog = <<>>

C9_Witness == h.walkFailed /\ h.partial > 0

\* C10: a run that follows a run which ended with every task Done and its
\* final save done makes no Download call and no Files.Get or Files.List
\* call.
C10_Idempotent == h.prevComplete => ~h.fetched /\ ~h.listed

C10_Witness ==
  /\ h.prevComplete /\ pc = "exit"
  /\ \E j \in 1..Total : fileTasks[j].Md5Checksum = ""

\* C11: after a walk of a root that is a file with fingerprint m, the list
\* holds exactly one task, with the root's id, SavePath exactly config.Dst,
\* Md5Checksum m and Done = FALSE before its first attempt; when the run
\* ends without an error the task is Done and a file is at config.Dst.
\* Stated as the claim has it; the walk breaks it.
C11_SingleFileRoot ==
  (InExecutor /\ h.walked /\ ~isDriveFolder(tree, 0)) =>
    /\ Len(fileTasks) = 1
    /\ fileTasks[1].FileId = IdOf(0)
    /\ fileTasks[1].SavePath = Dst
    /\ fileTasks[1].Md5Checksum = tree.md5[0]
    /\ h.attemptLog = <<>> => ~fileTasks[1].Done
    /\ (pc = "exit" /\ ~err) => fileTasks[1].Done /\ Dst \in DOMAIN fs

\* The ways the local write of one attempt can fail: os.Create fails,
\* io.Copy fails part-way, the final Flush of the buffered bytes fails.
WriteFailures == {"createFail", "copyFail", "flushFail"}

\* C12: whenever the executor is about to attempt a task, an attempt that
\* fetches the content and meets a failure of the local write (file
\* creation, writing a part of the content, the final flush) returns an
\* error, so that the attempt counts as failed.  Stated as the claim has
\* it; saveFile breaks it.
C12_WriteFailureFails ==
  (pc = "exec" /\ i <= Total /\ ~Skips(fileTasks[i])) =>
    \A o \in WriteFailures :
      LET r == downloadDriveFile(fs, dirs, fileTasks[i], o)
      IN  (r.fetched /\ ~r.hang) => r.err

\* C13: a call of saveListFile that fails leaves the run as the same call
\* does when it succeeds: after the walk the executor starts on the list
\* as walked, after a task's download the task is Done and the loop goes
\* on to the next task without an error, at the end onRunDownload returns;
\* no local file, attempt, fetch or other Done flag changes with it.
C13_BestEffortSave ==
  [][ (h'.saves = h.saves + 1 /\ h'.lastSave = "failed") =>
        /\ pc = "walk" =>
             /\ pc' = "exec" /\ i' = 1 /\ k' = 1 /\ ~err'
             /\ fileTasks' = fileTasks /\ fs' = fs /\ dirs' = dirs
             /\ h'.attemptLog = h.attemptLog /\ h'.fetched = h.fetched
        /\ (pc = "exec" /\ i <= Total) =>
             /\ pc' = "exec" /\ i' = i + 1 /\ k' = 1 /\ ~err'
             /\ fileTasks' = [fileTasks EXCEPT ![i].Done = TRUE]
             /\ Last(h'.attemptLog) = i /\ Last(h'.att) = "ok"
        /\ (pc = "final" \/ (pc = "exec" /\ i > Total)) =>
             /\ pc' = "exit" /\ i' = i /\ k' = k /\ err' = err
             /\ fileTasks' = fileTasks /\ fs' = fs /\ dirs' = dirs
             /\ h'.attemptLog = h.attemptLog /\ h'.fetched = h.fetched
    ]_vars

C13_Witness ==
  /\ pc = "exec" /\ ~err /\ i = SavePeriod + 1 /\ i <= Total
  /\ h.lastSave = "failed" /\ h.saves = 1
  /\ fileTasks[SavePeriod].Done /\ ~h.startDone[SavePeriod]

\* C14: every step of onRunDownload from the start of the task loop to its
\* return keeps the length of the list and the FileId, SavePath and
\* Md5Checksum of the task at every position, and turns no Done flag from
\* TRUE to FALSE.
C14_ListStable ==
  [][ (pc \in {"exec", "final"}) =>
        /\ Len(fileTasks') = Len(fileTasks)
        /\ \A j \in 1..Len(fileTasks) :
             /\ SameTask(fileTasks'[j], fileTasks[j])
             /\ fileTasks[j].Done => fileTasks'[j].Done
    ]_vars

C14_Witness ==
  /\ pc = "exit" /\ h.loadOk = "ok" /\ Total > SavePeriod
  /\ ~h.startDone[SavePeriod] /\ fileTasks[SavePeriod].Done
  /\ ~fileTasks[Total].Done
  /\ \A j \in 1..Total : SameTask(fileTasks[j], Decode(h.listFile0.doc)[j])

\* The fingerprint of the local file at p as the claim speaks of it: empty
\* when no regular file is there or the file cannot be read.
LocalMd5(p, o) ==
  IF p \notin DOMAIN fs \/ o \in {"openFail", "readErr"} THEN ""
  ELSE Md5Of(fs[p])

\* C15: whenever the executor is about to attempt a task, the attempt
\* returns nil without a Download call if and only if the fingerprint of
\* the local file and the task's Md5Checksum are both non-empty and equal;
\* in every other case the attempt makes the Download call, and when
\* nothing fails on the way the file at SavePath holds the remote content.
\* Stated as the claim has it; getFileMd5 breaks it.
C15_SkipDecision ==
  (pc = "exec" /\ i <= Total /\ ~Skips(fileTasks[i])) =>
    \A o \in DownloadOutcomes :
      LET t     == fileTasks[i]
          r     == downloadDriveFile(fs, dirs, t, o)
          local == LocalMd5(t.SavePath, o)
          equal == t.Md5Checksum # "" /\ local # "" /\ local = t.Md5Checksum
      IN  /\ equal <=> (~r.fetched /\ ~r.err /\ ~r.hang)
          /\ ~equal => r.fetched
          /\ (~equal /\ o \in {"ok", "changed"}) =>
               /\ ~r.err
               /\ t.SavePath \in DOMAIN r.fs
               /\ r.fs[t.SavePath] = RemoteContent(t, o)

\* C16: after a walk on which every call succeeded, no two tasks of the
\* list have the same SavePath.  Stated as the claim has it; the walk
\* breaks it on siblings of the same name.
C16_DistinctPaths ==
  (pc = "exec" /\ h.walked) =>
    \A a, b \in 1..Len(fileTasks) :
      a # b => fileTasks[a].SavePath # fileTasks[b].SavePath

\* C17: for every task list, when saveListFile has returned nil,
\* loadListFile of the same path returns nil and a list equal to the one
\* saved, in length, order and every field.  Stated as the claim has it;
\* encoding/json breaks it.
C17_RoundTrip ==
  (pc = "saved" /\ ~err) =>
    /\ ~loadListFile(listFile).err
    /\ loadListFile(listFile).tasks = fileTasks

\* C18: listDriveFolder hands the entries of every page to the handler
\* once and in order, and returns nil only at a page that comes with an
\* empty continuation token, that is when every child of the folder has
\* been handed over, however many entries the pages hold.  Stated as the
\* claim has it; listDriveFolder breaks it.
C18_PaginationComplete ==
  [][ (pc = "list" /\ pc' \in {"list", "walk"}) =>
        LET all  == Children(tree, EntryOf(tree, task.FileId))
            upto == IF pc' = "list" THEN pageToken' ELSE Len(all)
            seg  == SubSeq(all, pageToken + 1, upto)
        IN  /\ fileTasks' = fileTasks \o PageTasks(tree, task, seg, FALSE)
            /\ taskQueue' = taskQueue \o PageTasks(tree, task, seg, TRUE)
    ]_vars

\* C19: the executor sleeps x * 5 seconds after the x-th failed attempt on
\* a task, after every sleep another attempt on the same task is due or
\* made, and there is no sleep after the attempt that exhausts the
\* retries: at most 4 sleeps on a task (5, 10, 15, 20 seconds).  Stated
\* as the claim has it; the retry loop breaks it.
C19_BackoffSchedule ==
  (InExecutor /\ h.attemptLog # <<>>) =>
    LET j     == Last(h.attemptLog)
        waits == Len(h.slept)
    IN  /\ \A x \in 1..waits : h.slept[x] = x * SleepUnit
        /\ \A x \in 1..Len(h.att) : h.att[x] = "fail" => x <= waits
        /\ waits <= MaxAttempts - 1
        /\ waits = Len(h.att) => pc = "exec" /\ i = j /\ k = waits + 1

\* The local file of task t is there and was written to its end.
WholeFile(t) == HasFile(t) /\ fs[t.SavePath] # "partial"

\* C20: in an invocation that follows one that ended or was terminated at
\* any step, the list is either loaded from a list file that holds a
\* complete document or built by a fresh walk; no task is loaded as Done
\* whose local file is missing or short; and when the invocation returns
\* without an error every task is Done.  Stated as the claim has it; the
\* executor breaks it.
C20_CrashRecovery ==
  (run > 1 /\ pc \in {"exec", "final", "exit", "hung"}) =>
    /\ \/ h.loadOk = "ok" /\ h.listFile0.state = "json"
             /\ Len(fileTasks) = Len(h.listFile0.doc)
       \/ h.loadOk = "fail" /\ h.walked /\ h.listFile0.state # "json"
    /\ h.loadOk = "ok" =>
         \A j \in 1..Len(fileTasks) :
           h.startDone[j] => WholeFile(fileTasks[j])
    /\ (pc = "exit" /\ ~err) => \A j \in 1..Len(fileTasks) : fileTasks[j].Done

\* C21: every call of getFileMd5 returns: no attempt is left inside it
\* (pc never becomes "hung"), whatever a read of the opened file reports,
\* and for a path that cannot be opened it returns the empty string.
\* Stated as the claim has it; the read loop of getFileMd5 breaks it.
C21_HasherTerminates ==
  /\ pc # "hung"
  /\ (pc = "exec" /\ i <= Total /\ fileTasks[i].SavePath \notin dirs) =>
       getFileMd5(fs, dirs, fileTasks[i].SavePath, "openFail") = ""

====
